---- MODULE Spec2Model ----
(***************************************************************************)
(* The moderation-aware generation gateway of src/gemini_app.py: the      *)
(* Flask handler index(), generate_content() and get_safety_settings().    *)
(* One session (one cookie) is modelled, with one request in flight at a   *)
(* time; the provider (model.generate_content) is the environment.         *)
(***************************************************************************)
EXTENDS Naturals, Sequences, FiniteSets, TLC

VARIABLES
    MODERATION_LEVEL,  \* os.getenv('MODERATION_LEVEL'), fixed at start-up
    session,           \* flask.session: a dict, modelled as a function on its keys
    pc,                \* position of the request being handled
    request,           \* the request being handled
    inflight,          \* the outstanding call to model.generate_content
    calls,             \* provider calls issued during the current request
    result,            \* what the provider call did: a response or a fault
    gen,               \* what generate_content returned or raised
    response,          \* what index() returned to the transport layer
    lastPost,          \* history: the form of the latest POST and how it ended
    levelBefore        \* history: session.get('last_moderation_level') when the request began

vars == <<MODERATION_LEVEL, session, pc, request, inflight, calls, result,
          gen, response, lastPost, levelBefore>>

-----------------------------------------------------------------------------
(* Python values *)

\* Python's None; no text, level or header of the model is this string.
None == "None"

\* bool(x) of a str-or-None value: None and "" are falsy.
truthy(x) == x # None /\ x # ""

\* dict.get(key, default)
dict_get(d, key, default) == IF key \in DOMAIN d THEN d[key] ELSE default

\* {} : the dict without keys
empty_dict == [k \in {} |-> None]

-----------------------------------------------------------------------------
(* Bounds and input sets *)

MaxRatings == 2
MaxParts == 2

HarmCategories ==
    {"HARM_CATEGORY_HATE_SPEECH", "HARM_CATEGORY_DANGEROUS_CONTENT",
     "HARM_CATEGORY_SEXUALLY_EXPLICIT", "HARM_CATEGORY_HARASSMENT"}

ConfiguredLevels == {"moderate", "relaxed"}
FormPrompts == {None, "", "Hello"}
FormLevels == {None, "", "strict", "moderate", "relaxed", "minimal", "STRICT"}
AcceptHeaders == {None, "application/json", "text/html"}
FormatArgs == {None, "json"}
ArgPrompts == {None, "Hello"}

FinishReasons == {"SAFETY", "STOP"}
RatedCategories == {"HARM_CATEGORY_HATE_SPEECH", "HARM_CATEGORY_HARASSMENT"}
Probabilities == 0 .. 5
Texts == {"", "Hi there"}
FaultMessages == {"503 Service Unavailable"}
PartHasNoText == "Response candidate content part has no text."

SeqsUpTo(S, n) == UNION {[1 .. k -> S] : k \in 0 .. n}

Ratings == [category : RatedCategories, probability : Probabilities]
\* a part of candidate.content: a text part, or a part whose .text raises
Parts == [is_text : {TRUE}, text : Texts] \cup {[is_text |-> FALSE, text |-> None]}

CandidatesOver(ratingSeqs, partSeqs) ==
    {c \in [finish_reason : FinishReasons, safety_ratings : ratingSeqs,
            has_content : BOOLEAN, parts : partSeqs] :
        c.has_content \/ c.parts = <<>>}

\* a second candidate that differs from every first one in what would be read
Decoys ==
    {[finish_reason |-> "SAFETY",
      safety_ratings |-> <<[category |-> "HARM_CATEGORY_SEXUALLY_EXPLICIT", probability |-> 4]>>,
      has_content |-> TRUE,
      parts |-> <<[is_text |-> TRUE, text |-> "decoy"]>>]}

ResponsesOver(cands) ==
    {[fault |-> None, candidates |-> <<>>]}
    \cup {[fault |-> None, candidates |-> <<c>>] : c \in cands}
    \cup {[fault |-> None, candidates |-> <<c, d>>] : c \in cands, d \in Decoys}

Faults == {[fault |-> m, candidates |-> <<>>] : m \in FaultMessages}

-----------------------------------------------------------------------------
(* gemini_app.py *)

generation_config == [max_output_tokens |-> 8192, temperature |-> 1, top_p |-> "0.95"]

thresholds ==
    [strict |-> "BLOCK_LOW_AND_ABOVE", moderate |-> "BLOCK_MEDIUM_AND_ABOVE",
     relaxed |-> "BLOCK_ONLY_HIGH", minimal |-> "BLOCK_NONE"]

\* mutant: an unknown label falls back to no blocking instead of moderate
get_safety_settings_default_none(content_filter_strength) ==
    LET threshold == dict_get(thresholds, content_filter_strength, "BLOCK_NONE")
    IN  [category \in HarmCategories |-> threshold]

get_safety_settings(content_filter_strength) ==
    LET threshold == dict_get(thresholds, content_filter_strength, "BLOCK_MEDIUM_AND_ABOVE")
    IN  [category \in HarmCategories |-> threshold]

safety_levels == <<"Low", "Medium", "High", "Very High">>

\* the loop of lines 114-120 over candidate.safety_ratings
safety_info_of(safety_ratings) ==
    [i \in 1 .. Len(safety_ratings) |->
        LET category == safety_ratings[i].category
            probability == safety_ratings[i].probability
            level == dict_get(safety_levels, probability, "Unknown")
        IN  category \o ": " \o level]

returned(response_text, is_moderated, moderation_reason, safety_info) ==
    [raised |-> FALSE, message |-> None, response_text |-> response_text,
     is_moderated |-> is_moderated, moderation_reason |-> moderation_reason,
     safety_info |-> safety_info]

raise(message) ==
    [raised |-> TRUE, message |-> message, response_text |-> None,
     is_moderated |-> FALSE, moderation_reason |-> None, safety_info |-> <<>>]

\* mutant: the text parts are looked at before the finish reason
generate_content_text_first(res) ==
    IF res.fault # None THEN raise(res.fault)
    ELSE IF res.candidates # <<>> THEN
        LET candidate == res.candidates[1]
            finish_reason == candidate.finish_reason
            safety_info == safety_info_of(candidate.safety_ratings)
        IN  IF candidate.has_content /\ candidate.parts # <<>>
            THEN IF candidate.parts[1].is_text
                 THEN returned(candidate.parts[1].text, FALSE, None, safety_info)
                 ELSE raise(PartHasNoText)
            ELSE IF finish_reason = "SAFETY"
            THEN returned(None, TRUE, "Content blocked due to safety concerns", safety_info)
            ELSE returned(None, FALSE, "No content generated", safety_info)
    ELSE returned(None, FALSE, "No candidates in the response", <<>>)

\* generate_content from the return of model.generate_content on (lines 95-139);
\* res is what the provider call did
generate_content(res) ==
    IF res.fault # None THEN raise(res.fault)
    ELSE IF res.candidates # <<>> THEN
        LET candidate == res.candidates[1]
            finish_reason == candidate.finish_reason
            safety_info == safety_info_of(candidate.safety_ratings)
        IN  IF finish_reason = "SAFETY"
            THEN returned(None, TRUE, "Content blocked due to safety concerns", safety_info)
            ELSE IF candidate.has_content /\ candidate.parts # <<>>
            THEN IF candidate.parts[1].is_text
                 THEN returned(candidate.parts[1].text, FALSE, None, safety_info)
                 ELSE raise(PartHasNoText)
            ELSE returned(None, FALSE, "No content generated", safety_info)
    ELSE returned(None, FALSE, "No candidates in the response", <<>>)

\* markdown.markdown(text): a line of plain text becomes one paragraph
markdown(text) == IF text = "" THEN "" ELSE "<p>" \o text \o "</p>"

\* mutant: a format=json query parameter asks for JSON too
accepts_json_or_format(req) == req.accept = "application/json" \/ req.args_format = "json"

\* request.headers.get('Accept') == 'application/json' (lines 162, 181, 192, 204)
accepts_json(req) == req.accept = "application/json"

\* (jsonify(payload), status)
jsonify(payload, status) == [kind |-> "json", status |-> status, body |-> payload]

\* render_template("index-with-css.html", **context)
render_template(context) == [kind |-> "html", status |-> 200, body |-> context]

\* request.form.get("prompt") (line 149)
form_prompt(req) == req.form_prompt

\* mutant: the session's remembered level comes before the configured default
form_moderation_level_session(req, sess, default) ==
    IF req.form_moderation_level # None THEN req.form_moderation_level
    ELSE dict_get(sess, "last_moderation_level", default)

\* request.form.get("moderation_level", MODERATION_LEVEL) (line 150)
form_moderation_level(req, sess, default) ==
    IF req.form_moderation_level # None THEN req.form_moderation_level ELSE default

\* mutant: line 154 is missing, only the prompt is stored
session_store_prompt_only(sess, prompt, moderation_level) ==
    [k \in DOMAIN sess \cup {"last_prompt"} |->
        IF k = "last_prompt" THEN prompt ELSE sess[k]]

\* mutant: the session is not written before the provider is called
session_store_skipped(sess, prompt, moderation_level) == sess

\* session['last_prompt'] = prompt; session['last_moderation_level'] = moderation_level
\* (lines 153-154)
session_store(sess, prompt, moderation_level) ==
    [k \in DOMAIN sess \cup {"last_prompt", "last_moderation_level"} |->
        IF k = "last_prompt" THEN prompt
        ELSE IF k = "last_moderation_level" THEN moderation_level
        ELSE sess[k]]

\* mutant: no except clause, the fault leaves index()
respond_fault_unhandled(req, prompt, moderation_level, g) ==
    [kind |-> "unhandled", status |-> 500, body |-> [exception |-> g.message]]

\* the except clause (lines 201-210)
respond_fault(req, prompt, moderation_level, g) ==
    LET error_message == g.message
    IN  IF accepts_json(req)
        THEN jsonify([error |-> error_message], 500)
        ELSE render_template([response_text |-> "Error: " \o error_message,
                              last_prompt |-> prompt,
                              last_moderation_level |-> moderation_level])

\* if is_moderated: (lines 161-178)
respond_moderated(req, prompt, moderation_level, g) ==
    IF accepts_json(req)
    THEN jsonify([error |-> "Content moderated", reason |-> g.moderation_reason,
                  safety_info |-> g.safety_info], 403)
    ELSE render_template([response_text |-> "Content moderated: " \o g.moderation_reason,
                          safety_info |-> g.safety_info,
                          last_prompt |-> prompt,
                          last_moderation_level |-> moderation_level])

\* if response_text: (lines 180-189)
respond_generated(req, prompt, moderation_level, g) ==
    IF accepts_json(req)
    THEN jsonify([response |-> g.response_text, safety_info |-> g.safety_info], 200)
    ELSE render_template([response_text |-> markdown(g.response_text),
                          safety_info |-> g.safety_info,
                          last_prompt |-> prompt,
                          last_moderation_level |-> moderation_level])

\* else: (lines 190-199)
respond_empty(req, prompt, moderation_level, g) ==
    LET error_message == "No content generated"
    IN  IF accepts_json(req)
        THEN jsonify([error |-> error_message, safety_info |-> g.safety_info], 404)
        ELSE render_template([response_text |-> "Error: " \o error_message,
                              safety_info |-> g.safety_info,
                              last_prompt |-> prompt,
                              last_moderation_level |-> moderation_level])

\* mutant: line 180 tests "is not None" instead of truthiness
index_POST_response_not_none(req, prompt, moderation_level, g) ==
    IF g.raised THEN respond_fault(req, prompt, moderation_level, g)
    ELSE IF g.is_moderated THEN respond_moderated(req, prompt, moderation_level, g)
    ELSE IF g.response_text # None THEN respond_generated(req, prompt, moderation_level, g)
    ELSE respond_empty(req, prompt, moderation_level, g)

\* the try block and its except clause (lines 156-210); g is what
\* generate_content returned or raised
index_POST_response(req, prompt, moderation_level, g) ==
    IF g.raised THEN respond_fault(req, prompt, moderation_level, g)
    ELSE IF g.is_moderated THEN respond_moderated(req, prompt, moderation_level, g)
    ELSE IF truthy(g.response_text) THEN respond_generated(req, prompt, moderation_level, g)
    ELSE respond_empty(req, prompt, moderation_level, g)

\* mutant: the default level is a literal, not the configured one
index_GET_response_fixed_default(sess, default) ==
    LET last_prompt == dict_get(sess, "last_prompt", "")
        last_moderation_level == dict_get(sess, "last_moderation_level", "moderate")
    IN  render_template([response_text |-> "",
                         last_prompt |-> last_prompt,
                         last_moderation_level |-> last_moderation_level])

\* the GET branch (lines 211-218)
index_GET_response(sess, default) ==
    LET last_prompt == dict_get(sess, "last_prompt", "")
        last_moderation_level == dict_get(sess, "last_moderation_level", default)
    IN  render_template([response_text |-> "",
                         last_prompt |-> last_prompt,
                         last_moderation_level |-> last_moderation_level])

-----------------------------------------------------------------------------
(* Requests, provider results and blank values *)

PostRequests ==
    [method : {"POST"}, form_prompt : FormPrompts, form_moderation_level : FormLevels,
     accept : AcceptHeaders, args_prompt : {None}, args_format : FormatArgs]

GetRequests ==
    [method : {"GET"}, form_prompt : {None}, form_moderation_level : {None},
     accept : AcceptHeaders, args_prompt : ArgPrompts, args_format : FormatArgs]

\* what the provider is made to do in the gateway's specification
FixtureRatings ==
    {<<>>,
     <<[category |-> "HARM_CATEGORY_HATE_SPEECH", probability |-> 2]>>,
     <<[category |-> "HARM_CATEGORY_HARASSMENT", probability |-> 5],
       [category |-> "HARM_CATEGORY_HATE_SPEECH", probability |-> 1]>>}

FixtureParts ==
    {<<>>,
     <<[is_text |-> TRUE, text |-> ""]>>,
     <<[is_text |-> TRUE, text |-> "Hi there"]>>,
     <<[is_text |-> TRUE, text |-> "Hi there"], [is_text |-> TRUE, text |-> ""]>>,
     <<[is_text |-> FALSE, text |-> None]>>}

ProviderResults ==
    Faults \cup ResponsesOver(CandidatesOver(FixtureRatings, FixtureParts))

NoRequest ==
    [method |-> None, form_prompt |-> None, form_moderation_level |-> None,
     accept |-> None, args_prompt |-> None, args_format |-> None]
NoCall == [prompt |-> None, generation_config |-> generation_config,
           safety_settings |-> [category \in HarmCategories |-> None]]
NoResult == [fault |-> None, candidates |-> <<>>]
NoGen == returned(None, FALSE, None, <<>>)
NoResponse == [kind |-> None, status |-> 0, body |-> empty_dict]
NoPost == [prompt |-> None, moderation_level |-> None, ended |-> None]

-----------------------------------------------------------------------------
(* The gateway *)

Init ==
    /\ MODERATION_LEVEL \in ConfiguredLevels
    /\ session = empty_dict
    /\ pc = "idle"
    /\ request = NoRequest
    /\ inflight = NoCall
    /\ calls = 0
    /\ result = NoResult
    /\ gen = NoGen
    /\ response = NoResponse
    /\ lastPost = NoPost
    /\ levelBefore = None

\* index(), POST, lines 148-154: read the form, write the session
index_POST_store ==
    /\ pc = "idle"
    /\ \E req \in PostRequests :
        LET prompt == form_prompt(req)
            moderation_level == form_moderation_level(req, session, MODERATION_LEVEL)
        IN  /\ request' = req
            /\ session' = session_store(session, prompt, moderation_level)
            /\ lastPost' = [prompt |-> req.form_prompt,
                            moderation_level |-> req.form_moderation_level,
                            ended |-> None]
    /\ levelBefore' = dict_get(session, "last_moderation_level", None)
    /\ pc' = "stored"
    /\ calls' = 0
    /\ UNCHANGED <<MODERATION_LEVEL, inflight, result, gen, response>>

\* generate_content, lines 92-100: build the thresholds and call the provider
generate_content_call ==
    /\ pc = "stored"
    /\ LET prompt == form_prompt(request)
           moderation_level == form_moderation_level(request, session, MODERATION_LEVEL)
       IN  inflight' = [prompt |-> prompt,
                        generation_config |-> generation_config,
                        safety_settings |-> get_safety_settings(moderation_level)]
    /\ calls' = calls + 1
    /\ pc' = "calling"
    /\ UNCHANGED <<MODERATION_LEVEL, session, request, result, gen, response, lastPost,
                   levelBefore>>

\* the provider call ends (returns or raises); generate_content interprets it
\* (lines 102-139) and index() builds the response (lines 156-210)
index_POST_respond ==
    /\ pc = "calling"
    /\ \E res \in ProviderResults :
        LET prompt == form_prompt(request)
            moderation_level == form_moderation_level(request, session, MODERATION_LEVEL)
            g == generate_content(res)
        IN  /\ result' = res
            /\ gen' = g
            /\ response' = index_POST_response(request, prompt, moderation_level, g)
            /\ lastPost' = [lastPost EXCEPT !.ended = IF g.raised THEN "raised" ELSE "returned"]
    /\ inflight' = NoCall
    /\ pc' = "done"
    /\ UNCHANGED <<MODERATION_LEVEL, session, request, calls, levelBefore>>

\* index(), GET, lines 211-218
index_GET ==
    /\ pc = "idle"
    /\ \E req \in GetRequests : request' = req
    /\ response' = index_GET_response(session, MODERATION_LEVEL)
    /\ levelBefore' = dict_get(session, "last_moderation_level", None)
    /\ calls' = 0
    /\ pc' = "done"
    /\ UNCHANGED <<MODERATION_LEVEL, session, inflight, result, gen, lastPost>>

\* the transport layer sends the response; the handler is ready for the next request
transport_send ==
    /\ pc = "done"
    /\ pc' = "idle"
    /\ request' = NoRequest
    /\ result' = NoResult
    /\ gen' = NoGen
    /\ response' = NoResponse
    /\ calls' = 0
    /\ levelBefore' = None
    /\ UNCHANGED <<MODERATION_LEVEL, session, inflight, lastPost>>

Next ==
    \/ index_POST_store
    \/ generate_content_call
    \/ index_POST_respond
    \/ index_GET
    \/ transport_send

Spec == Init /\ [][Next]_vars

-----------------------------------------------------------------------------
(* The response interpreter on its own: every response shape within the bounds *)

InitInterpret ==
    /\ MODERATION_LEVEL = "moderate"
    /\ session = empty_dict
    /\ pc = "fixture"
    /\ request = NoRequest
    /\ inflight = NoCall
    /\ calls = 0
    /\ \E ratings \in SeqsUpTo(Ratings, MaxRatings), parts \in SeqsUpTo(Parts, MaxParts),
          finish_reason \in FinishReasons, has_content \in BOOLEAN,
          others \in {<<>>} \cup {<<d>> : d \in Decoys}, n \in 0 .. 1 :
        /\ has_content \/ parts = <<>>
        /\ n = 0 => (ratings = <<>> /\ parts = <<>> /\ finish_reason = "STOP"
                      /\ has_content /\ others = <<>>)
        /\ result = [fault |-> None,
                     candidates |->
                        IF n = 0 THEN <<>>
                        ELSE <<[finish_reason |-> finish_reason, safety_ratings |-> ratings,
                                has_content |-> has_content, parts |-> parts]>> \o others]
    /\ gen = NoGen
    /\ response = NoResponse
    /\ lastPost = NoPost
    /\ levelBefore = None

interpret ==
    /\ pc = "fixture"
    /\ gen' = generate_content(result)
    /\ pc' = "interpreted"
    /\ UNCHANGED <<MODERATION_LEVEL, session, request, inflight, calls, result,
                   response, lastPost, levelBefore>>

SpecInterpret == InitInterpret /\ [][interpret]_vars

-----------------------------------------------------------------------------
(* Properties *)

PostDone == pc = "done" /\ request.method = "POST"
GetDone == pc = "done" /\ request.method = "GET"

\* the level a POST resolves to when only the form and the configuration count
FormOrConfigured ==
    IF request.form_moderation_level = None THEN MODERATION_LEVEL
    ELSE request.form_moderation_level

\* the threshold the specification gives each moderation level
ThresholdOf(level) ==
    CASE level = "strict" -> "BLOCK_LOW_AND_ABOVE"
      [] level = "moderate" -> "BLOCK_MEDIUM_AND_ABOVE"
      [] level = "relaxed" -> "BLOCK_ONLY_HIGH"
      [] level = "minimal" -> "BLOCK_NONE"
      [] OTHER -> "BLOCK_MEDIUM_AND_ABOVE"

\* the label the specification gives each probability ordinal
LabelOf(ordinal) ==
    CASE ordinal = 1 -> "Low"
      [] ordinal = 2 -> "Medium"
      [] ordinal = 3 -> "High"
      [] ordinal = 4 -> "Very High"
      [] OTHER -> "Unknown"

SessionHolds(prompt, level) ==
    /\ DOMAIN session = {"last_prompt", "last_moderation_level"}
    /\ session["last_prompt"] = prompt
    /\ session["last_moderation_level"] = level

\* C1: a GET that follows a POST carrying prompt P and level L renders
\* lastPrompt = P and lastModerationLevel = L, however the generation ended.
C1_RoundTrip ==
    (GetDone /\ lastPost.prompt # None /\ lastPost.moderation_level # None)
    => /\ response.body.last_prompt = lastPost.prompt
       /\ response.body.last_moderation_level = lastPost.moderation_level

\* a GET answered after a POST of ("Hello", "strict") whose provider call raised
C1_Witness ==
    /\ GetDone
    /\ lastPost = [prompt |-> "Hello", moderation_level |-> "strict", ended |-> "raised"]
    /\ response.body.last_prompt = "Hello"
    /\ response.body.last_moderation_level = "strict"

\* C2: a POST whose prompt is empty or absent is answered with a client error
\* and no provider call is made during the request.
C2_MissingPromptRejected ==
    (PostDone /\ request.form_prompt \in {None, ""})
    => (response.status \in 400 .. 499 /\ calls = 0)

\* C3 as stated: for a JSON caller each outcome has its own payload and status,
\* and every generated text, the empty one included, gives the success shape.
C3_EveryTextIsSuccess ==
    (PostDone /\ request.accept = "application/json")
    => /\ gen.raised => response = jsonify([error |-> gen.message], 500)
       /\ (~gen.raised /\ gen.is_moderated)
            => response = jsonify([error |-> "Content moderated",
                                   reason |-> gen.moderation_reason,
                                   safety_info |-> gen.safety_info], 403)
       /\ (~gen.raised /\ ~gen.is_moderated /\ gen.response_text # None)
            => response = jsonify([response |-> gen.response_text,
                                   safety_info |-> gen.safety_info], 200)
       /\ (~gen.raised /\ ~gen.is_moderated /\ gen.response_text = None)
            => /\ response.status = 404
               /\ DOMAIN response.body = {"error", "safety_info"}
               /\ response.body.safety_info = gen.safety_info

\* C3 amended: the same, except that only a non-empty generated text gives the
\* success shape; an empty generated text is answered like Empty (404).
C3_NonEmptyTextIsSuccess ==
    (PostDone /\ request.accept = "application/json")
    => /\ gen.raised => response = jsonify([error |-> gen.message], 500)
       /\ (~gen.raised /\ gen.is_moderated)
            => response = jsonify([error |-> "Content moderated",
                                   reason |-> gen.moderation_reason,
                                   safety_info |-> gen.safety_info], 403)
       /\ (~gen.raised /\ ~gen.is_moderated /\ gen.response_text \notin {None, ""})
            => response = jsonify([response |-> gen.response_text,
                                   safety_info |-> gen.safety_info], 200)
       /\ (~gen.raised /\ ~gen.is_moderated /\ gen.response_text \in {None, ""})
            => response = jsonify([error |-> "No content generated",
                                   safety_info |-> gen.safety_info], 404)

\* a JSON caller whose provider generated the empty text and who got 404
C3_Witness ==
    /\ PostDone /\ request.accept = "application/json"
    /\ ~gen.raised /\ ~gen.is_moderated /\ gen.response_text = ""
    /\ gen.safety_info # <<>>
    /\ response.status = 404

\* C4: the interpreter's ordered checks: no candidates gives Empty ("No
\* candidates in the response", no safety info); else candidate 0 alone decides:
\* SAFETY gives Moderated, else text parts give Generated with the first part's
\* text, else Empty ("No content generated"); safety info labels candidate 0's
\* ratings in order, 1..4 as Low, Medium, High, Very High, others Unknown.
C4_Interpreter ==
    (pc = "interpreted" /\ result.fault = None)
    => IF result.candidates = <<>>
       THEN gen = returned(None, FALSE, "No candidates in the response", <<>>)
       ELSE LET c == result.candidates[1]
                info == [i \in 1 .. Len(c.safety_ratings) |->
                            c.safety_ratings[i].category \o ": "
                                \o LabelOf(c.safety_ratings[i].probability)]
            IN  IF c.finish_reason = "SAFETY"
                THEN gen = returned(None, TRUE, "Content blocked due to safety concerns", info)
                ELSE IF c.has_content /\ Len(c.parts) > 0
                THEN c.parts[1].is_text
                        => gen = returned(c.parts[1].text, FALSE, None, info)
                ELSE gen = returned(None, FALSE, "No content generated", info)

\* a SAFETY candidate that also has text parts, two ratings (one of them with an
\* ordinal outside 1..4), followed by a second candidate, interpreted as Moderated
C4_Witness ==
    /\ pc = "interpreted"
    /\ Len(result.candidates) = 2
    /\ result.candidates[1].finish_reason = "SAFETY"
    /\ result.candidates[1].parts # <<>>
    /\ result.candidates[1].parts[1].is_text
    /\ Len(result.candidates[1].safety_ratings) = 2
    /\ result.candidates[1].safety_ratings[1].probability = 5
    /\ result.candidates[1].safety_ratings[2].probability = 3
    /\ gen.is_moderated
    /\ gen.safety_info = <<result.candidates[1].safety_ratings[1].category \o ": Unknown",
                           result.candidates[1].safety_ratings[2].category \o ": High">>

\* C5: the thresholds sent to the provider give all four harm categories the
\* one threshold of the level (strict, moderate, relaxed, minimal), and for any
\* other level string they are the thresholds of moderate.
C5_Thresholds ==
    pc = "calling"
    => /\ DOMAIN inflight.safety_settings = HarmCategories
       /\ \A category \in HarmCategories :
            inflight.safety_settings[category] = ThresholdOf(FormOrConfigured)
       /\ FormOrConfigured \notin {"strict", "moderate", "relaxed", "minimal"}
            => inflight.safety_settings
                 = [category \in HarmCategories |-> "BLOCK_MEDIUM_AND_ABOVE"]

\* the provider is being called for a level that is none of the four labels
C5_Witness ==
    /\ pc = "calling"
    /\ request.form_moderation_level = "STRICT"
    /\ \A category \in HarmCategories :
         inflight.safety_settings[category] = "BLOCK_MEDIUM_AND_ABOVE"

\* C6 as stated: a POST is answered with JSON whenever the Accept header is
\* application/json or the query has format=json, with a document otherwise.
C6_AcceptOrFormat ==
    PostDone
    => (response.kind = "json"
          <=> (request.accept = "application/json" \/ request.args_format = "json"))

\* C6 amended: a POST is answered with JSON exactly when the Accept header is
\* application/json, for every outcome; format=json selects nothing.
C6_AcceptOnly ==
    PostDone
    => /\ response.kind \in {"json", "html"}
       /\ response.kind = "json" <=> request.accept = "application/json"

\* format=json without the Accept header, answered with a document
C6_Witness ==
    /\ PostDone
    /\ request.args_format = "json"
    /\ request.accept = "text/html"
    /\ gen.is_moderated
    /\ response.kind = "html"

\* C7 as stated: a POST without moderation_level on a session that remembers
\* level L calls the provider with the thresholds of L and leaves L remembered.
C7_SessionBeforeDefault ==
    (request.method = "POST" /\ pc \in {"calling", "done"}
        /\ request.form_moderation_level = None /\ levelBefore # None)
    => /\ SessionHolds(request.form_prompt, levelBefore)
       /\ pc = "calling"
            => \A category \in HarmCategories :
                 inflight.safety_settings[category] = ThresholdOf(levelBefore)

\* C7 amended: the level of a POST is the form's value, else the configured
\* default; the session's level is not consulted, and a POST without
\* moderation_level sets the remembered level to the configured default.
C7_FormThenDefault ==
    (request.method = "POST" /\ pc \in {"stored", "calling", "done"})
    => /\ SessionHolds(request.form_prompt, FormOrConfigured)
       /\ pc = "calling"
            => \A category \in HarmCategories :
                 inflight.safety_settings[category] = ThresholdOf(FormOrConfigured)

\* a POST without moderation_level on a session that remembered "strict":
\* the provider is called with the configured default's thresholds
C7_Witness ==
    /\ pc = "calling"
    /\ request.form_moderation_level = None
    /\ levelBefore = "strict"
    /\ MODERATION_LEVEL = "relaxed"
    /\ session["last_moderation_level"] = "relaxed"
    /\ \A category \in HarmCategories :
         inflight.safety_settings[category] = "BLOCK_ONLY_HIGH"

C10_StoreBeforeCall ==
    /\ calls <= 1
    /\ (pc = "calling" \/ PostDone)
        => /\ calls = 1
           /\ SessionHolds(request.form_prompt, FormOrConfigured)
    /\ pc = "calling" => inflight.prompt = request.form_prompt

\* the provider is being called on a session that held another prompt's level
C10_Witness ==
    /\ pc = "calling"
    /\ calls = 1
    /\ levelBefore = "minimal"
    /\ request.form_prompt = "Hello"
    /\ request.form_moderation_level = "strict"
    /\ session["last_prompt"] = "Hello"
    /\ session["last_moderation_level"] = "strict"

====
